---- MODULE Spec2Model ----
(***************************************************************************)
(* Routing subsystem of the Paris trip planner: the Graph classes of       *)
(* graphs.py (vertices keyed by name, neighbour sets), the two loaders,    *)
(* and the route construction of find_path.py.                             *)
(*                                                                         *)
(* Python objects are records carrying their class in the field cls.  A    *)
(* Location is [cls, name, location]; location is the (lat, lon) tuple,    *)
(* latitude in thousandths of a degree, all points on the meridian lon 0.  *)
(* A _Vertex is [cls, item, location, neighbours]; a neighbour reference   *)
(* is held as the item (dict key) of the vertex it points to, because a    *)
(* _Vertex is created only by add_vertex under its own key and is never    *)
(* removed or replaced.  The dict _vertices keeps insertion order, so a    *)
(* graph is the sequence of its vertices in insertion order.               *)
(***************************************************************************)
EXTENDS Integers, Sequences, FiniteSets, TLC

VARIABLES city_graph, subway_graph, ids_to_objects, pc, raised, last_call,
          chosen_locations, locations_to_visit, visit_index, prev, path, result, pair

vars == <<city_graph, subway_graph, ids_to_objects, pc, raised, last_call,
          chosen_locations, locations_to_visit, visit_index, prev, path, result, pair>>

query_vars == <<city_graph, chosen_locations, locations_to_visit, visit_index, prev, path, result,
                pair>>

(* ---------------------------- bounds ----------------------------------- *)
NumStations == 2
NumStops == 1
MaxPos == 2
GridStep == 10
NumIds == 3
NumNames == 2
MaxChosen == 1

(* ------------------------ program constants ---------------------------- *)
r == 6371000
THRESHOLD == 1500

(* ---------------------------- locations -------------------------------- *)
Lats == {GridStep * p : p \in 0..MaxPos}

HotelName == <<"L", 0>>

Location(cls, name, lat) == [cls |-> cls, name |-> name, location |-> <<lat, 0>>]

SubwayStation(name, lat) == Location("SubwayStation", name, lat)
Landmark(name, lat) == Location("Landmark", name, lat)
Hotel(name, lat) == Location("Hotel", name, lat)

None == [cls |-> "NoneType"]

(* A Python list held where None may be held as well. *)
List(items) == [cls |-> "list", items |-> items]

(* The objects handed to the Graph interface: two objects of one name but  *)
(* different coordinates are unequal (dataclass __eq__ compares fields).   *)
GraphObjects == {SubwayStation(<<"S", i>>, lat) : i \in 1..NumNames, lat \in {0, GridStep}}

(* Python's hash(obj).  The four Location classes are @dataclass with the  *)
(* default eq=True and frozen=False, which sets __hash__ to None: their    *)
(* instances cannot be set members or dict keys.  _Vertex and str keep a   *)
(* hash.                                                                   *)
Hashable(obj) == obj.cls \notin {"Location", "Landmark", "Restaurant", "Hotel", "SubwayStation"}

isinstance(obj, cls) == obj.cls = cls

(* ------------------------------ Graph ---------------------------------- *)
Vertex(location) ==
    [cls |-> "_Vertex", item |-> location.name, location |-> location, neighbours |-> {}]

Keys(g) == {g[i].item : i \in DOMAIN g}

get_vertex_str(g, item) == g[CHOOSE i \in DOMAIN g : g[i].item = item]

get_vertex(g, location) == get_vertex_str(g, location.name)

get_neighbors(g, location) == {get_vertex_str(g, n) : n \in get_vertex(g, location).neighbours}

get_all_vertices(g) == [i \in DOMAIN g |-> g[i].location]

Graph_add_vertex(g, location) ==
    IF location.name \notin Keys(g) THEN Append(g, Vertex(location)) ELSE g

NeighboursAdd(g, item, other) ==
    [i \in DOMAIN g |->
        IF g[i].item = item THEN [g[i] EXCEPT !.neighbours = @ \cup {other}] ELSE g[i]]

Graph_add_edge_one_way(g, item1, item2) ==
    IF item1.name \in Keys(g) /\ item2.name \in Keys(g)
    THEN [raised |-> "none", graph |-> NeighboursAdd(g, item1.name, item2.name)]
    ELSE [raised |-> "ValueError", graph |-> g]

Graph_add_edge_creates(g, item1, item2) ==
    IF item1.name \in Keys(g) /\ item2.name \in Keys(g)
    THEN [raised |-> "none",
          graph |-> NeighboursAdd(NeighboursAdd(g, item1.name, item2.name),
                                  item2.name, item1.name)]
    ELSE [raised |-> "ValueError", graph |-> Graph_add_vertex(g, item1)]

Graph_add_edge(g, item1, item2) ==
    IF item1.name \in Keys(g) /\ item2.name \in Keys(g)
    THEN [raised |-> "none",
          graph |-> NeighboursAdd(NeighboursAdd(g, item1.name, item2.name),
                                  item2.name, item1.name)]
    ELSE [raised |-> "ValueError", graph |-> g]

adjacent(g, item1, item2) ==
    IF item1.name \in Keys(g) /\ item2.name \in Keys(g)
    THEN \E v2 \in get_neighbors(g, item1) : v2.location = item2
    ELSE FALSE

(* ------------------------------ distance ------------------------------- *)
(* get_distance on one meridian: delta_lon = 0, so a = sin(delta_lat/2)^2, *)
(* c = |delta_lat| in radians and d = r * |delta_lat| * pi / 180, here in  *)
(* whole metres for latitudes in thousandths of a degree (pi as 355/113).  *)
get_distance(l1, l2) ==
    LET lat1 == l1.location[1]
        lat2 == l2.location[1]
        delta_lat == IF lat2 >= lat1 THEN lat2 - lat1 ELSE lat1 - lat2
    IN ((r \div 1000) * delta_lat * 355) \div (113 * 180)

(* ------------------------------ loaders -------------------------------- *)
RECURSIVE add_vertices(_, _)
add_vertices(g, locations) ==
    IF locations = <<>> THEN g
    ELSE add_vertices(Graph_add_vertex(g, Head(locations)), Tail(locations))

(* The double loop of load_city_graph over i and j in range(i + 1, n).     *)
RECURSIVE add_edges_by_proximity(_, _, _, _)
add_edges_by_proximity(g, vertices, i, j) ==
    IF i > Len(vertices) THEN g
    ELSE IF j > Len(vertices) THEN add_edges_by_proximity(g, vertices, i + 1, i + 2)
    ELSE LET d == get_distance(vertices[i], vertices[j])
         IN add_edges_by_proximity(
                IF d <= THRESHOLD THEN Graph_add_edge(g, vertices[i], vertices[j]).graph ELSE g,
                vertices, i, j + 1)

load_city_graph(landmarks, restaurants, subways, hotel) ==
    LET with_vertices == add_vertices(<<>>, landmarks \o restaurants \o subways \o <<hotel>>)
        vertices == get_all_vertices(with_vertices)
    IN [vertices |-> add_edges_by_proximity(with_vertices, vertices, 1, 2), hotel |-> hotel]

RECURSIVE add_line_edges(_, _, _)
add_line_edges(g, ids, lines) ==
    IF lines = <<>> THEN g
    ELSE add_line_edges(Graph_add_edge(g, ids[Head(lines)[1]], ids[Head(lines)[2]]).graph,
                        ids, Tail(lines))

load_subway_graph(subways, lines) == add_line_edges(add_vertices(<<>>, subways), subways, lines)

(* ----------------------------- find_path.py ---------------------------- *)
(* A call ends by returning a value or by raising an exception, held by    *)
(* its class; a function whose result depends on the iteration order of a  *)
(* set is the set of its outcomes.                                         *)
Return(value) == [kind |-> "return", value |-> value]
Raise(exception) == [kind |-> "raise", value |-> [cls |-> exception]]

Min(S) == CHOOSE x \in S : \A y \in S : x <= y

(* estimate_nearest_subway: visited.add(starter) hashes starter.  Past it, *)
(* the loop keeps the first neighbour of least distance when that distance *)
(* is below the starter's; u is a _Vertex and visited holds locations, so  *)
(* "u not in visited" compares objects of different classes.               *)
RECURSIVE estimate_nearest_subway(_, _, _, _)
estimate_nearest_subway(location, starter, visited, g) ==
    IF ~Hashable(starter) THEN {Raise("TypeError")}
    ELSE LET new_visited == visited \cup {starter}
             starter_vertex == get_vertex(g, starter)
             candidates == {u \in get_neighbors(g, starter_vertex.location) : u \notin new_visited}
             nearer == {u \in candidates :
                           get_distance(location, u.location) < get_distance(location, starter)}
             least == Min({get_distance(location, u.location) : u \in nearer})
         IN IF nearer = {} THEN {Return(starter)}
            ELSE UNION {estimate_nearest_subway(location, u.location, new_visited, g) :
                           u \in {w \in nearer : get_distance(location, w.location) = least}}

(* find_closest_subway: neighbors is a set of _Vertex objects, and the     *)
(* isinstance test is applied to those vertices themselves.                *)
find_closest_subway(location, city, g) ==
    IF location.name \notin Keys(city.vertices) THEN {Raise("KeyError")}
    ELSE LET neighbors == get_neighbors(city.vertices, location)
             stations == {neighbor \in neighbors : isinstance(neighbor, "SubwayStation")}
         IN IF stations # {} THEN {Return(neighbor) : neighbor \in stations}
            ELSE IF get_all_vertices(g) = <<>> THEN {Raise("IndexError")}
            ELSE estimate_nearest_subway(location, get_all_vertices(g)[1], {}, g)

(* reassign_distances: distances is a dict from stations to edge counts,   *)
(* here a function; the function returned is the dict after the loop.      *)
reassign_distances(distances, subway, g, visited) ==
    LET neighbours == get_neighbors(g, subway)
        unvisited == {u.location : u \in {w \in neighbours : w \notin visited}}
        step == distances[subway] + 1
    IN [k \in DOMAIN distances \cup unvisited |->
            IF k \notin unvisited THEN distances[k]
            ELSE IF k \notin DOMAIN distances THEN step
            ELSE IF step < distances[k] THEN step
            ELSE distances[k]]

(* list.sort(reverse=True, key=...) is stable: descending keys, equal keys *)
(* in their order of the list.                                             *)
RECURSIVE sort_reverse(_, _)
sort_reverse(items, key) ==
    IF items = <<>> THEN <<>>
    ELSE LET sorted == sort_reverse(SubSeq(items, 1, Len(items) - 1), key)
             item == items[Len(items)]
             before == {i \in 1..Len(sorted) : key[sorted[i]] >= key[item]}
         IN SubSeq(sorted, 1, Cardinality(before)) \o <<item>>
                \o SubSeq(sorted, Cardinality(before) + 1, Len(sorted))

(* sort_by_distances: order[item] is the iteration order of the neighbour  *)
(* set of the vertex item, a sequence of items.                            *)
sort_by_distances(subway, g, distances, order) ==
    LET neighbours == order[subway.name]
        neighbour_stations == [i \in DOMAIN neighbours |-> get_vertex_str(g, neighbours[i]).location]
    IN sort_reverse(neighbour_stations, distances)

iteration_orders(g) ==
    LET lists(S) == {l \in [1..Cardinality(S) -> S] : \A i, j \in DOMAIN l : l[i] = l[j] => i = j}
    IN {order \in [Keys(g) -> UNION {lists(g[i].neighbours) : i \in DOMAIN g}] :
           \A item \in Keys(g) : order[item] \in lists(get_vertex_str(g, item).neighbours)}

(* find_subway_path: the result carries the distances dict as the call     *)
(* left it, because the caller's dict is the one the callee updates.       *)
(* depth counts the frames of the recursion against the interpreter's      *)
(* recursion limit.                                                        *)
RECURSIVE find_subway_path(_, _, _, _, _, _, _)
RECURSIVE try_neighbours(_, _, _, _, _, _, _, _)
try_neighbours(neighbour_stations, subway1, subway2, distances, new_visited, g, order, depth) ==
    LET shortest == neighbour_stations[Len(neighbour_stations)]
        remaining == SubSeq(neighbour_stations, 1, Len(neighbour_stations) - 1)
        rest_of_path == find_subway_path(shortest, subway2, distances, new_visited, g, order, depth + 1)
    IN IF rest_of_path.kind = "raise" THEN rest_of_path
       ELSE IF rest_of_path.value # None
            THEN [rest_of_path EXCEPT !.value = List(<<subway1>> \o @.items)]
       ELSE IF Len(remaining) > 0
            THEN try_neighbours(remaining, subway1, subway2, rest_of_path.distances,
                                new_visited, g, order, depth)
       ELSE rest_of_path

find_subway_path(subway1, subway2, distances, visited, g, order, depth) ==
    IF depth > 1000 THEN [kind |-> "raise", value |-> [cls |-> "RecursionError"], distances |-> distances]
    ELSE IF subway1 = subway2
         THEN [kind |-> "return", value |-> List(<<subway1>>), distances |-> distances]
    ELSE IF ~Hashable(subway1)
         THEN [kind |-> "raise", value |-> [cls |-> "TypeError"], distances |-> distances]
    ELSE LET new_visited == visited \cup {subway1}
             relaxed == reassign_distances(distances, subway1, g, new_visited)
             neighbour_stations == sort_by_distances(subway1, g, relaxed, order)
         IN IF neighbour_stations = <<>>
            THEN [kind |-> "raise", value |-> [cls |-> "IndexError"], distances |-> relaxed]
            ELSE try_neighbours(neighbour_stations, subway1, subway2, relaxed,
                                new_visited, g, order, depth)

(* The outcomes of one call over the iteration orders of the neighbour     *)
(* sets; no order is consulted before sort_by_distances is reached.        *)
find_subway_path_outcomes(subway1, subway2, distances, visited, g) ==
    LET outcome(order) ==
            LET o == find_subway_path(subway1, subway2, distances, visited, g, order, 1)
            IN [kind |-> o.kind, value |-> o.value]
    IN IF subway1 = subway2 \/ ~Hashable(subway1)
       THEN {outcome(<<>>)}
       ELSE {outcome(order) : order \in iteration_orders(g)}

(* ------------------- the Graph interface, call by call ----------------- *)
EmptyCity == [vertices |-> <<>>, hotel |-> None]

NoCall == [op |-> "none"]

QueryIdle ==
    /\ city_graph = EmptyCity
    /\ chosen_locations = <<>>
    /\ locations_to_visit = <<>>
    /\ visit_index = 0
    /\ prev = None
    /\ path = <<>>
    /\ result = None
    /\ pair = <<0, 0>>

InitGraph ==
    /\ subway_graph = <<>>
    /\ ids_to_objects = <<>>
    /\ pc = "graph"
    /\ raised = "none"
    /\ last_call = NoCall
    /\ QueryIdle

add_vertex(location) ==
    /\ pc = "graph"
    /\ subway_graph' = Graph_add_vertex(subway_graph, location)
    /\ raised' = "none"
    /\ last_call' = [op |-> "add_vertex", item1 |-> location, item2 |-> location]
    /\ UNCHANGED <<ids_to_objects, pc, query_vars>>

(* add_edge is called within its precondition item1 != item2, which the    *)
(* dataclass __eq__ decides field by field.                                *)
add_edge(item1, item2) ==
    /\ pc = "graph"
    /\ item1 # item2
    /\ subway_graph' = Graph_add_edge(subway_graph, item1, item2).graph
    /\ raised' = Graph_add_edge(subway_graph, item1, item2).raised
    /\ last_call' = [op |-> "add_edge", item1 |-> item1, item2 |-> item2]
    /\ UNCHANGED <<ids_to_objects, pc, query_vars>>

NextGraph ==
    \/ \E location \in GraphObjects : add_vertex(location)
    \/ \E item1, item2 \in GraphObjects : add_edge(item1, item2)

SpecGraph == InitGraph /\ [][NextGraph]_vars

(* --------------------------- load_subway_graph ------------------------- *)
(* The rows of the two CSV files are the inputs.  A station row is         *)
(* (station_id, name, lat, lon); a line row is a pair of two different     *)
(* station ids.  Station ids are the unique keys of the file, numbered in  *)
(* file order; names are not unique.  A line row naming an id that no      *)
(* station row has ends the load with the KeyError of the dict lookup.     *)
Ids == 1..NumIds

InitLoad ==
    /\ subway_graph = <<>>
    /\ ids_to_objects = <<>>
    /\ pc = "add vertices"
    /\ raised = "none"
    /\ last_call = NoCall
    /\ QueryIdle

load_subway_graph_station_row(id, new_subway) ==
    /\ pc = "add vertices"
    /\ id = Len(ids_to_objects) + 1
    /\ subway_graph' = Graph_add_vertex(subway_graph, new_subway)
    /\ ids_to_objects' = Append(ids_to_objects, new_subway)
    /\ last_call' = [op |-> "station row", item1 |-> new_subway, item2 |-> new_subway]
    /\ UNCHANGED <<pc, raised, query_vars>>

load_subway_graph_line_row(id1, id2) ==
    /\ pc \in {"add vertices", "add edges"}
    /\ id1 # id2
    /\ IF id1 \in DOMAIN ids_to_objects /\ id2 \in DOMAIN ids_to_objects
       THEN LET station1 == ids_to_objects[id1]
                station2 == ids_to_objects[id2]
            IN /\ subway_graph' = Graph_add_edge(subway_graph, station1, station2).graph
               /\ raised' = Graph_add_edge(subway_graph, station1, station2).raised
               /\ pc' = IF raised' = "none" THEN "add edges" ELSE "raised"
               /\ last_call' = [op |-> "line row", item1 |-> station1, item2 |-> station2]
       ELSE /\ raised' = "KeyError"
            /\ pc' = "raised"
            /\ last_call' = [op |-> "line row", item1 |-> None, item2 |-> None]
            /\ UNCHANGED subway_graph
    /\ UNCHANGED <<ids_to_objects, query_vars>>

load_subway_graph_return ==
    /\ pc \in {"add vertices", "add edges"}
    /\ pc' = "loaded"
    /\ UNCHANGED <<subway_graph, ids_to_objects, raised, last_call, query_vars>>

NextLoad ==
    \/ \E id \in Ids, new_subway \in GraphObjects : load_subway_graph_station_row(id, new_subway)
    \/ \E id1, id2 \in Ids : load_subway_graph_line_row(id1, id2)
    \/ load_subway_graph_return

SpecLoad == InitLoad /\ [][NextLoad]_vars

(* ---------------------------- load_city_graph -------------------------- *)
(* The construction step by step: first every add_vertex call of lines     *)
(* 197-218, then the double loop of lines 222-229, one pair a step.  pair  *)
(* is (i, j), the position of the two loops counted from 0 as range does;  *)
(* j = n is the inner loop exhausted, i = n the outer one.  The list       *)
(* vertices of line 223 is get_all_vertices of the graph at any later      *)
(* moment too, because add_edge neither adds nor reorders vertices.        *)
add_edge_if_near_1km(g, l1, l2) ==
    IF get_distance(l1, l2) <= 1000 THEN Graph_add_edge(g, l1, l2).graph ELSE g

add_edge_if_near(g, l1, l2) ==
    IF get_distance(l1, l2) <= THRESHOLD THEN Graph_add_edge(g, l1, l2).graph ELSE g

InitCity ==
    /\ subway_graph = <<>>
    /\ ids_to_objects = <<>>
    /\ pc = "load_city_graph"
    /\ raised = "none"
    /\ last_call = NoCall
    /\ QueryIdle

load_city_graph_add_vertices(landmarks, restaurants, subways, hotel) ==
    /\ pc = "load_city_graph"
    /\ city_graph' = [vertices |-> add_vertices(<<>>, landmarks \o restaurants \o subways \o <<hotel>>),
                      hotel |-> hotel]
    /\ pair' = <<0, 1>>
    /\ pc' = "add edges by proximity"
    /\ UNCHANGED <<subway_graph, ids_to_objects, raised, last_call, chosen_locations,
                   locations_to_visit, visit_index, prev, path, result>>

load_city_graph_pair ==
    /\ pc = "add edges by proximity"
    /\ LET vertices == get_all_vertices(city_graph.vertices)
       IN /\ pair[1] < Len(vertices)
          /\ pair[2] < Len(vertices)
          /\ city_graph' = [city_graph EXCEPT
                 !.vertices = add_edge_if_near(@, vertices[pair[1] + 1], vertices[pair[2] + 1])]
          /\ last_call' = [op |-> "get_distance", item1 |-> vertices[pair[1] + 1],
                           item2 |-> vertices[pair[2] + 1]]
    /\ pair' = <<pair[1], pair[2] + 1>>
    /\ UNCHANGED <<subway_graph, ids_to_objects, pc, raised, chosen_locations,
                   locations_to_visit, visit_index, prev, path, result>>

load_city_graph_next_i ==
    /\ pc = "add edges by proximity"
    /\ pair[1] < Len(city_graph.vertices)
    /\ pair[2] >= Len(city_graph.vertices)
    /\ pair' = <<pair[1] + 1, pair[1] + 2>>
    /\ UNCHANGED <<city_graph, subway_graph, ids_to_objects, pc, raised, last_call,
                   chosen_locations, locations_to_visit, visit_index, prev, path, result>>

load_city_graph_return ==
    /\ pc = "add edges by proximity"
    /\ pair[1] >= Len(city_graph.vertices)
    /\ pc' = "loaded"
    /\ UNCHANGED <<city_graph, subway_graph, ids_to_objects, raised, last_call, query_vars>>

NextCity ==
    \/ /\ pc = "load_city_graph"
       /\ \E n \in 1..NumStations :
          \E station_lat \in [1..n -> Lats], stop_lat \in [1..NumStops -> Lats], hotel_lat \in Lats :
             load_city_graph_add_vertices(
                 [k \in 1..NumStops |-> Landmark(<<"P", k>>, stop_lat[k])], <<>>,
                 [k \in 1..n |-> SubwayStation(<<"S", k>>, station_lat[k])],
                 Hotel(HotelName, hotel_lat))
    \/ load_city_graph_pair
    \/ load_city_graph_next_i
    \/ load_city_graph_return

SpecCity == InitCity /\ [][NextCity]_vars

(* ------------------------------ a query -------------------------------- *)
(* Both graphs are built by the loaders from one data set: NumStops        *)
(* landmarks, one to NumStations uniquely named stations, the hotel, and a *)
(* set of line rows; then one of the functions of find_path.py is called.  *)
RECURSIVE as_rows(_)
as_rows(S) ==
    IF S = {} THEN <<>>
    ELSE LET row == CHOOSE x \in S : \A y \in S : x[1] < y[1] \/ (x[1] = y[1] /\ x[2] <= y[2])
         IN <<row>> \o as_rows(S \ {row})

Init ==
    /\ \E n \in 1..NumStations :
       \E station_lat \in [1..n -> Lats], stop_lat \in [1..NumStops -> Lats], hotel_lat \in Lats :
       \E lines \in SUBSET {row \in (1..n) \X (1..n) : row[1] < row[2]} :
          LET subways == [i \in 1..n |-> SubwayStation(<<"S", i>>, station_lat[i])]
              landmarks == [i \in 1..NumStops |-> Landmark(<<"P", i>>, stop_lat[i])]
          IN /\ \A row \in lines : row[1] < row[2]
             /\ city_graph = load_city_graph(landmarks, <<>>, subways, Hotel(HotelName, hotel_lat))
             /\ subway_graph = load_subway_graph(subways, as_rows(lines))
    /\ ids_to_objects = <<>>
    /\ pc = "idle"
    /\ raised = "none"
    /\ last_call = NoCall
    /\ chosen_locations = <<>>
    /\ locations_to_visit = <<>>
    /\ visit_index = 0
    /\ prev = None
    /\ path = <<>>
    /\ result = None
    /\ pair = <<0, 0>>

Range(f) == {f[i] : i \in DOMAIN f}

Stops == {l \in Range(get_all_vertices(city_graph.vertices)) : isinstance(l, "Landmark")}

ChosenLists == UNION {[1..n -> Stops] : n \in 0..MaxChosen}

Finish(outcome) ==
    /\ pc' = "done"
    /\ raised' = IF outcome.kind = "raise" THEN outcome.value.cls ELSE "none"
    /\ result' = IF outcome.kind = "raise" THEN None ELSE outcome.value

(* A direct call of find_subway_path.  The distances argument is the empty *)
(* dict: the dict {subway1: 0} that find_path means to pass cannot be      *)
(* built from a station that has no hash.                                  *)
call_find_subway_path(subway1, subway2) ==
    /\ pc = "idle"
    /\ \E outcome \in find_subway_path_outcomes(subway1, subway2, <<>>, {}, subway_graph) :
          Finish(outcome)
    /\ last_call' = [op |-> "find_subway_path", item1 |-> subway1, item2 |-> subway2]
    /\ UNCHANGED <<city_graph, subway_graph, ids_to_objects, chosen_locations,
                   locations_to_visit, visit_index, prev, path, pair>>

call_find_closest_subway(location) ==
    /\ pc = "idle"
    /\ \E outcome \in find_closest_subway(location, city_graph, subway_graph) : Finish(outcome)
    /\ last_call' = [op |-> "find_closest_subway", item1 |-> location, item2 |-> location]
    /\ UNCHANGED <<city_graph, subway_graph, ids_to_objects, chosen_locations,
                   locations_to_visit, visit_index, prev, path, pair>>

(* A direct call of estimate_nearest_subway with a fresh visited set, from  *)
(* any point of the city and any station of the transit graph as seed.     *)
call_estimate_nearest_subway(location, starter) ==
    /\ pc = "idle"
    /\ \E outcome \in estimate_nearest_subway(location, starter, {}, subway_graph) :
          Finish(outcome)
    /\ last_call' = [op |-> "estimate_nearest_subway", item1 |-> location, item2 |-> starter]
    /\ UNCHANGED <<city_graph, subway_graph, ids_to_objects, chosen_locations,
                   locations_to_visit, visit_index, prev, path, pair>>

(* find_path with line 23 written as an alias of the argument followed by  *)
(* append: the caller's list gains the hotel.                              *)
find_path_begin_aliased(chosen) ==
    /\ pc = "idle"
    /\ chosen_locations' = chosen \o <<city_graph.hotel>>
    /\ path' = <<city_graph.hotel>>
    /\ prev' = city_graph.hotel
    /\ locations_to_visit' = chosen \o <<city_graph.hotel>>
    /\ visit_index' = 1
    /\ pc' = "find_path"
    /\ last_call' = [op |-> "find_path", item1 |-> city_graph.hotel, item2 |-> city_graph.hotel]
    /\ UNCHANGED <<city_graph, subway_graph, ids_to_objects, raised, result, pair>>

(* find_path, lines 19-23. *)
find_path_begin(chosen) ==
    /\ pc = "idle"
    /\ chosen_locations' = chosen
    /\ path' = <<city_graph.hotel>>
    /\ prev' = city_graph.hotel
    /\ locations_to_visit' = chosen \o <<city_graph.hotel>>
    /\ visit_index' = 1
    /\ pc' = "find_path"
    /\ last_call' = [op |-> "find_path", item1 |-> city_graph.hotel, item2 |-> city_graph.hotel]
    /\ UNCHANGED <<city_graph, subway_graph, ids_to_objects, raised, result, pair>>

(* The transit branch of one iteration, lines 30-47: the outcomes are the  *)
(* station sequence to splice in, or the exception that ends find_path.    *)
transit_segment(from, location, city, g) ==
    LET starts == find_closest_subway(from, city, g)
        ends == find_closest_subway(location, city, g)
        search(starting_station, end_station) ==
            IF ~Hashable(starting_station) THEN {Raise("TypeError")}
            ELSE {IF o.kind = "return" /\ o.value = None
                  THEN Raise("Exception")
                  ELSE o :
                     o \in find_subway_path_outcomes(starting_station, end_station,
                               [k \in {starting_station} |-> 0], {}, g)}
    IN UNION {IF s.kind = "raise" THEN {s}
              ELSE UNION {IF e.kind = "raise" THEN {e} ELSE search(s.value, e.value) :
                             e \in ends} :
                 s \in starts}

(* One iteration of the for loop of find_path, with the return of line 49  *)
(* after the last one.                                                     *)
find_path_visit ==
    /\ pc = "find_path"
    /\ LET location == locations_to_visit[visit_index]
           last == visit_index = Len(locations_to_visit)
       IN IF adjacent(city_graph.vertices, prev, location)
          THEN /\ path' = Append(path, location)
               /\ raised' = "none"
               /\ pc' = IF last THEN "done" ELSE "find_path"
               /\ result' = IF last THEN List(path') ELSE result
          ELSE \E outcome \in transit_segment(prev, location, city_graph, subway_graph) :
                  IF outcome.kind = "raise"
                  THEN /\ raised' = outcome.value.cls
                       /\ pc' = "done"
                       /\ UNCHANGED <<path, result>>
                  ELSE /\ path' = (path \o outcome.value.items) \o <<location>>
                       /\ raised' = "none"
                       /\ pc' = IF last THEN "done" ELSE "find_path"
                       /\ result' = IF last THEN List(path') ELSE result
    /\ visit_index' = visit_index + 1
    /\ UNCHANGED <<city_graph, subway_graph, ids_to_objects, last_call, chosen_locations,
                   locations_to_visit, prev, pair>>

Next ==
    \/ /\ pc = "idle"
       /\ \/ \E subway1, subway2 \in Range(get_all_vertices(subway_graph)) :
                call_find_subway_path(subway1, subway2)
          \/ \E location \in Range(get_all_vertices(city_graph.vertices)) :
                call_find_closest_subway(location)
          \/ \E location \in Range(get_all_vertices(city_graph.vertices)),
                starter \in Range(get_all_vertices(subway_graph)) :
                call_estimate_nearest_subway(location, starter)
          \/ \E chosen \in ChosenLists : find_path_begin(chosen)
    \/ find_path_visit

Spec == Init /\ [][Next]_vars

(* ------------------------- properties of a query ----------------------- *)
Done(op) == pc = "done" /\ last_call.op = op

Returned == raised = "none"

(* Exception('There is no path between these stations'), the one raise    *)
(* statement of find_path.py.                                              *)
NoPathError == "Exception"

RECURSIVE within(_, _, _)
within(g, item, n) ==
    IF n = 0 THEN {item}
    ELSE LET nearer == within(g, item, n - 1)
         IN nearer \cup UNION {get_vertex_str(g, m).neighbours : m \in nearer}

Reachable(g, s, e) == e.name \in within(g, s.name, Len(g))

EdgeCount(g, s, e) == Min({n \in 0..Len(g) : e.name \in within(g, s.name, n)})

IsStationPath(g, p) ==
    /\ \A i \in DOMAIN p : p[i] \in Range(get_all_vertices(g))
    /\ \A i \in 1..(Len(p) - 1) : p[i + 1].name \in get_vertex(g, p[i]).neighbours

(* C1: for E reachable from S, find_subway_path(S, E) returns a path from  *)
(* S to E along edges of the transit graph with the least number of edges. *)
C1_ShortestPath ==
    (Done("find_subway_path") /\ Reachable(subway_graph, last_call.item1, last_call.item2))
        => /\ Returned
           /\ result.cls = "list"
           /\ result.items[1] = last_call.item1
           /\ result.items[Len(result.items)] = last_call.item2
           /\ IsStationPath(subway_graph, result.items)
           /\ Len(result.items) - 1
                 = EdgeCount(subway_graph, last_call.item1, last_call.item2)

(* C2: find_subway_path returns None exactly when E is unreachable from S, *)
(* and the only error find_path raises is the no-path error.               *)
C2_NoneIffUnreachable ==
    /\ Done("find_subway_path")
          => /\ ~Reachable(subway_graph, last_call.item1, last_call.item2)
                   => (Returned /\ result = None)
             /\ (Returned /\ result = None)
                   => ~Reachable(subway_graph, last_call.item1, last_call.item2)
    /\ (Done("find_path") /\ ~Returned) => raised = NoPathError

(* C3: a stop is appended directly, with nothing inserted before it,       *)
(* exactly when the last element of the route so far is adjacent to it in  *)
(* the proximity graph.                                                    *)
C3_DirectIffAdjacentToLast ==
    [][ pc = "find_path"
          => LET location == locations_to_visit[visit_index]
             IN (path' = Append(path, location))
                   <=> adjacent(city_graph.vertices, path[Len(path)], location) ]_vars

Returns(outcomes) == {o.value : o \in {x \in outcomes : x.kind = "return"}}

(* C4: when the last element of the route so far is not adjacent to the    *)
(* stop, what is appended is the station path found between the station    *)
(* closest to that last element and the station closest to the stop, then  *)
(* the stop (or the no-path error is raised).                              *)
C4_TransitSegmentSpliced ==
    [][ (pc = "find_path"
           /\ ~adjacent(city_graph.vertices, path[Len(path)], locations_to_visit[visit_index]))
          => LET location == locations_to_visit[visit_index]
                 starts == Returns(find_closest_subway(path[Len(path)], city_graph, subway_graph))
                 ends == Returns(find_closest_subway(location, city_graph, subway_graph))
             IN \/ raised' = NoPathError
                \/ \E s \in starts, e \in ends :
                   \E station_path \in Returns(find_subway_path_outcomes(
                                          s, e, [k \in {s} |-> 0], {}, subway_graph)) :
                      /\ station_path.cls = "list"
                      /\ path' = (path \o station_path.items) \o <<location>> ]_vars

(* C5: a finished find_path has returned a route from Lodging to Lodging   *)
(* holding the requested stops in order and otherwise only stations, or    *)
(* has raised the no-path error; it returns no partial route.              *)
IsFullRoute(route, chosen, hotel) ==
    /\ Len(route) >= Len(chosen) + 2
    /\ route[1] = hotel
    /\ route[Len(route)] = hotel
    /\ \E at \in [1..Len(chosen) -> 2..(Len(route) - 1)] :
          /\ \A i, j \in DOMAIN at : i < j => at[i] < at[j]
          /\ \A i \in DOMAIN at : route[at[i]] = chosen[i]
          /\ \A k \in 2..(Len(route) - 1) :
                (k \in Range(at)) \/ isinstance(route[k], "SubwayStation")

AdjacentStations(location) ==
    {l \in Range(get_all_vertices(city_graph.vertices)) :
        isinstance(l, "SubwayStation") /\ adjacent(city_graph.vertices, location, l)}

(* C6: for a point with a station among its neighbours in the proximity    *)
(* graph, find_closest_subway returns one of those adjacent stations.      *)
C6_AdjacentStationReturned ==
    (Done("find_closest_subway") /\ AdjacentStations(last_call.item1) # {})
        => (Returned /\ result \in AdjacentStations(last_call.item1))

(* C7: for a point with no adjacent station, find_closest_subway returns a *)
(* station of the transit graph no farther from the point than the seed    *)
(* (the first vertex), none of whose neighbours is strictly closer.        *)
C7_HillClimbResult ==
    (Done("find_closest_subway") /\ AdjacentStations(last_call.item1) = {}
        /\ Len(subway_graph) > 0)
        => /\ Returned
           /\ result \in Range(get_all_vertices(subway_graph))
           /\ get_distance(last_call.item1, result)
                 <= get_distance(last_call.item1, get_all_vertices(subway_graph)[1])
           /\ \A u \in get_neighbors(subway_graph, result) :
                 ~(get_distance(last_call.item1, u.location)
                      < get_distance(last_call.item1, result))

(* ------------------------- properties of the graphs -------------------- *)
HasEdge(g) == \E i \in DOMAIN g : g[i].neighbours # {}

(* C8: no vertex is ever a member of its own neighbour set, also after     *)
(* loading the transit graph from station rows whose names repeat.         *)
C8_NoSelfLoop ==
    \A i \in DOMAIN subway_graph : subway_graph[i].item \notin subway_graph[i].neighbours

(* C9: adjacency is symmetric and every neighbour reference points to a    *)
(* vertex of the graph, after any sequence of add_vertex and add_edge.     *)
C9_SymmetricAdjacency ==
    \A i \in DOMAIN subway_graph :
        \A n \in subway_graph[i].neighbours :
            /\ n \in Keys(subway_graph)
            /\ subway_graph[i].item \in get_vertex_str(subway_graph, n).neighbours

C9_Witness ==
    /\ last_call.op = "add_edge"
    /\ raised = "none"
    /\ last_call.item1.name # last_call.item2.name
    /\ last_call.item2.name \in get_vertex(subway_graph, last_call.item1).neighbours
    /\ Len(subway_graph) >= 2

(* C10: an add_edge naming an item that is not a vertex raises ValueError  *)
(* and changes neither the vertices nor any neighbour set; an add_vertex   *)
(* of a name already present changes nothing either.                       *)
C10_FailedCallsKeepGraph ==
    [][ /\ ( /\ last_call'.op = "add_edge"
             /\ ~ ( /\ last_call'.item1.name \in Keys(subway_graph)
                    /\ last_call'.item2.name \in Keys(subway_graph) ) )
           => (raised' = "ValueError" /\ subway_graph' = subway_graph)
        /\ ( /\ last_call'.op = "add_vertex"
             /\ last_call'.item1.name \in Keys(subway_graph) )
           => (raised' = "none" /\ subway_graph' = subway_graph) ]_vars

C10_Witness ==
    /\ last_call.op = "add_edge"
    /\ raised = "ValueError"
    /\ HasEdge(subway_graph)

C12_QueryKeepsGraphs ==
    [][ /\ city_graph' = city_graph
        /\ subway_graph' = subway_graph
        /\ \A chosen \in ChosenLists : find_path_begin(chosen) => chosen_locations' = chosen
        /\ pc = "find_path" => chosen_locations' = chosen_locations ]_vars

C12_Witness ==
    /\ Done("find_path")
    /\ Len(chosen_locations) >= 1
    /\ Len(path) >= 2
    /\ HasEdge(subway_graph)
    /\ HasEdge(city_graph.vertices)

Connected(g) ==
    \A a, b \in Range(get_all_vertices(g)) : Reachable(g, a, b)

NoStationTwice(p) == \A m, n \in DOMAIN p : p[m] = p[n] => m = n

====
